---- MODULE Spec2Model ----
(***************************************************************************)
(* A model of ExtractorTrafico (src/ExtractorTrafico.py): the object's     *)
(* fields G and estadisticas, the wall clock its estimator reads, and one  *)
(* action per method.  Numbers that the program keeps as floats are kept   *)
(* here as scaled integers: factors in tenths, the traffic level in        *)
(* hundredths, lengths in metres, the stored length in tenths of a km.     *)
(***************************************************************************)
EXTENDS Integers, Sequences, FiniteSets, TLC

VARIABLES
    G,              \* self.G: the street graph, or not loaded (None)
    estadisticas,   \* self.estadisticas: a dict, modelled as a function on the keys present
    reloj,          \* the wall clock datetime.now() reads, in ticks since Monday 00:00
    hora_actual,    \* local of the last estimar_trafico_actual: the hour it read
    dia_semana,     \* local of the last estimar_trafico_actual: the weekday it read
    inicio,         \* the instant at which the last estimar_trafico_actual began
    pc,             \* position of ejecutar_analisis_completo
    etapas,         \* the calls ejecutar_analisis_completo has made, in order, as the
                    \* console shows them: the method, and whether it reported an error
    op,             \* the method that returned last
    ret,            \* what it returned
    fallo,          \* whether its except branch ran (the call it guards raised)
    resultado,      \* what ejecutar_analisis_completo returned, once it has
    num_semaforos_osm, \* local of the last buscar_semaforos_osm: len(semaforos)
    reporte,        \* the report sink: whether a report file has been written
    mapa,           \* the map sink: whether a map file has been written
    tipos_ordenados \* local of the last extraer_calles_principales to reach line 153:
                    \* the ranked view, a list of (label, count)

vars == <<G, estadisticas, reloj, hora_actual, dia_semana, inicio, pc, etapas,
          op, ret, fallo, resultado, num_semaforos_osm, reporte, mapa, tipos_ordenados>>

-----------------------------------------------------------------------------
(* Bounds of the model.                                                    *)

MaxNodos == 3
MaxAristas == 2
MaxSegmentos == 2
MaxCategorias == 12
MaxRepetidos == 2
MaxComplejas == 10
MaxSemaforos == 2
TicksPorHora == 1
MaxDeriva == 1

-----------------------------------------------------------------------------
(* Python values.                                                          *)

\* A dict is a function whose domain is the set of keys present.
DictVacio == [k \in {} |-> 0]

Put(d, k, v) == [x \in (DOMAIN d) \cup {k} |-> IF x = k THEN v ELSE d[x]]

Get(d, k, def) == IF k \in DOMAIN d THEN d[k] ELSE def

\* Return values, tagged with their Python type.  val carries a bool (0/1),
\* an int, or a float in hundredths; dist carries a returned dict.
RetNone == [tipo |-> "None", val |-> 0, dist |-> <<>>]

RetBool(b) == [tipo |-> "bool", val |-> IF b THEN 1 ELSE 0, dist |-> <<>>]

RetInt(n) == [tipo |-> "int", val |-> n, dist |-> <<>>]

RetFloat(c) == [tipo |-> "float", val |-> c, dist |-> <<>>]

RetDict(d) == [tipo |-> "dict", val |-> 0, dist |-> d]

\* The value of one edge attribute in the graph's data: a string, a list of
\* strings, a number, or the key missing from the edge's dict ("falta").
\* "nan" is the float NaN a data frame holds where a row lacks the column.
Str(s) == [t |-> "str", s |-> s, l |-> <<>>, n |-> 0]

Lista(l) == [t |-> "list", s |-> "", l |-> l, n |-> 0]

Num(n) == [t |-> "num", s |-> "", l |-> <<>>, n |-> n]

Falta == [t |-> "falta", s |-> "", l |-> <<>>, n |-> 0]

NaN == [t |-> "nan", s |-> "", l |-> <<>>, n |-> 0]

RECURSIVE SumSeq(_)
SumSeq(s) == IF s = <<>> THEN 0 ELSE Head(s) + SumSeq(Tail(s))

Min(a, b) == IF a <= b THEN a ELSE b

-----------------------------------------------------------------------------
(* The graph: a networkx MultiDiGraph, its nodes and its edges in order.   *)

SinGrafo == [cargado |-> FALSE, nodes |-> {}, edges |-> <<>>]

Grafo(ns, es) == [cargado |-> TRUE, nodes |-> ns, edges |-> es]

Arista(u, v, h, nm, len) == [u |-> u, v |-> v, highway |-> h, name |-> nm, length |-> len]

\* G.degree(): in-degree plus out-degree, so a self-loop counts twice.
Grado(g, n) ==
    Cardinality({i \in DOMAIN g.edges : g.edges[i].u = n})
  + Cardinality({i \in DOMAIN g.edges : g.edges[i].v = n})

-----------------------------------------------------------------------------
(* __init__                                                                *)

Construido ==
    /\ G = SinGrafo
    /\ estadisticas = DictVacio
    /\ hora_actual = 0
    /\ dia_semana = 0
    /\ inicio = 0
    /\ pc = "inicio"
    /\ etapas = <<>>
    /\ op = "__init__"
    /\ ret = RetNone
    /\ fallo = FALSE
    /\ resultado = RetNone
    /\ num_semaforos_osm = 0
    /\ reporte = [escrito |-> FALSE]
    /\ mapa = [escrito |-> FALSE]
    /\ tipos_ordenados = <<>>

-----------------------------------------------------------------------------
(* extraer_datos_basicos: ok says whether ox.graph_from_place returned, g   *)
(* is the graph it returned.  On failure the call raises before self.G is   *)
(* assigned.                                                                *)

GrafoTrasFallo(g) == G

extraer_datos_basicos(ok, g) ==
    /\ G' = IF ok THEN g ELSE GrafoTrasFallo(g)
    /\ estadisticas' =
         IF ok
         THEN Put(Put(estadisticas, "intersecciones", Cardinality(g.nodes)),
                  "segmentos_calles", Len(g.edges))
         ELSE estadisticas
    /\ op' = "extraer_datos_basicos"
    /\ ret' = RetBool(ok)
    /\ fallo' = ~ok
    /\ UNCHANGED <<reloj, hora_actual, dia_semana, inicio, num_semaforos_osm, reporte, mapa, tipos_ordenados>>

-----------------------------------------------------------------------------
(* analizar_intersecciones                                                 *)

EsSimple(grado) == grado <= 2

EsEnT(grado) == grado = 3

EsComplejaDesdeCinco(grado) == grado >= 5

EsCompleja(grado) == grado >= 4

analizar_intersecciones ==
    /\ op' = "analizar_intersecciones"
    /\ fallo' = FALSE
    /\ G' = G
    /\ UNCHANGED <<reloj, hora_actual, dia_semana, inicio, num_semaforos_osm, reporte, mapa, tipos_ordenados>>
    /\ IF ~G.cargado
       THEN /\ ret' = RetNone
            /\ estadisticas' = estadisticas
       ELSE LET simples == Cardinality({n \in G.nodes : EsSimple(Grado(G, n))})
                en_t == Cardinality({n \in G.nodes : EsEnT(Grado(G, n))})
                complejas == Cardinality({n \in G.nodes : EsCompleja(Grado(G, n))})
            IN  /\ estadisticas' =
                     Put(Put(Put(estadisticas, "intersecciones_simples", simples),
                             "intersecciones_t", en_t),
                         "intersecciones_complejas", complejas)
                /\ ret' = RetDict(<< <<"simples", simples>>, <<"en_t", en_t>>,
                                     <<"complejas", complejas>> >>)

-----------------------------------------------------------------------------
(* The intersection classifier on its own: graphs of every topology within *)
(* the bounds, fetched and classified in any order.                        *)

RECURSIVE SeqsHasta(_, _)
SeqsHasta(S, n) ==
    IF n = 0 THEN {<<>>}
    ELSE LET menores == SeqsHasta(S, n - 1)
         IN  menores \cup {Append(s, x) : s \in {m \in menores : Len(m) = n - 1}, x \in S}

AristaLisa(u, v) == Arista(u, v, Str("residential"), Str("Calle 5"), Num(100))

\* The degree depends neither on an edge's direction nor on the order of the
\* edges, so the topologies are enumerated with u <= v and the edges sorted.
ParesDeNodos(n) == {p \in (1..n) \X (1..n) : p[1] <= p[2]}

ClaveDePar(p) == p[1] * (MaxNodos + 2) + p[2]

Ordenada(s) == \A i \in 1..(Len(s) - 1) : ClaveDePar(s[i]) <= ClaveDePar(s[i + 1])

GrafosRed ==
    UNION {{Grafo(1..n, [i \in DOMAIN ps |-> AristaLisa(ps[i][1], ps[i][2])]) :
              ps \in {s \in SeqsHasta(ParesDeNodos(n), MaxAristas) : Ordenada(s)}} :
           n \in 1..MaxNodos}

\* A method called on its own, outside ejecutar_analisis_completo.
FueraDeEjecucion == UNCHANGED <<pc, etapas, resultado>>

InitRed == Construido /\ reloj = 0

ExtraerRed ==
    /\ \E ok \in BOOLEAN, g \in GrafosRed : extraer_datos_basicos(ok, g)
    /\ FueraDeEjecucion

AnalizarRed == analizar_intersecciones /\ FueraDeEjecucion

NextRed == ExtraerRed \/ AnalizarRed

SpecRed == InitRed /\ [][NextRed]_vars

\* C1: after extraer_datos_basicos has succeeded and analizar_intersecciones
\* has run on the graph it loaded, the three stored class counts sum to the
\* stored number of intersections, and every intersection of the graph falls
\* in exactly one of the three classes.
C1_ClasesParticionan ==
    (op = "analizar_intersecciones" /\ G.cargado) =>
        /\ estadisticas["intersecciones_simples"] + estadisticas["intersecciones_t"]
             + estadisticas["intersecciones_complejas"] = estadisticas["intersecciones"]
        /\ \A n \in G.nodes :
             LET d == Grado(G, n)
             IN  Cardinality({c \in {"simple", "t", "compleja"} :
                                \/ c = "simple" /\ EsSimple(d)
                                \/ c = "t" /\ EsEnT(d)
                                \/ c = "compleja" /\ EsCompleja(d)}) = 1

C1_Testigo ==
    /\ op = "analizar_intersecciones"
    /\ G.cargado
    /\ estadisticas["intersecciones_simples"] >= 1
    /\ estadisticas["intersecciones_complejas"] >= 1
    /\ estadisticas["intersecciones"] = 3

-----------------------------------------------------------------------------
(* extraer_calles_principales                                              *)

TopAlmacenado == 10

traduccion_vias ==
    [residential |-> "Residencial", tertiary |-> "Terciaria",
     secondary |-> "Secundaria", primary |-> "Principal", trunk |-> "Troncal",
     unclassified |-> "Sin clasificar", primary_link |-> "Enlace principal",
     secondary_link |-> "Enlace secundario", tertiary_link |-> "Enlace terciario",
     trunk_link |-> "Enlace troncal", service |-> "Servicio",
     living_street |-> "Calle residencial", pedestrian |-> "Peatonal",
     footway |-> "Sendero peatonal", cycleway |-> "Ciclovía", track |-> "Pista",
     path |-> "Sendero", steps |-> "Escalones", motorway |-> "Autopista",
     motorway_link |-> "Enlace autopista"]

\* str.title() and str.lower(), on the strings the model's graphs carry.
Title == [unknown |-> "Unknown", busway |-> "Busway", servicio |-> "Servicio"]

Lower == ("Calle 5" :> "calle 5") @@ ("nan" :> "nan") @@ ("None" :> "none") @@ ("" :> "")

Nulo == [t |-> "none", s |-> "", l |-> <<>>, n |-> 0]

\* ox.graph_to_gdfs gives the edges a column for every attribute some edge
\* carries; a row whose edge lacks it holds NaN.  edge.get(attr, def) reads
\* the row, and returns def only where the frame has no such column.
TieneColumna(g, attr) == \E i \in DOMAIN g.edges : g.edges[i][attr].t # "falta"

EdgeGet(g, e, attr, def) ==
    IF e[attr].t # "falta" THEN e[attr]
    ELSE IF TieneColumna(g, attr) THEN NaN ELSE def

\* Lines 130-135: the label of a segment, or the AttributeError that
\* highway_type.title() raises on a value that is not a string.
TipoDeVia(v) ==
    LET h == IF v.t = "list"
             THEN (IF v.l # <<>> THEN Str(v.l[1]) ELSE Str("unknown"))
             ELSE v
    IN  IF h.t = "str"
        THEN [error |-> FALSE,
              tipo |-> IF h.s \in DOMAIN traduccion_vias
                       THEN traduccion_vias[h.s] ELSE Title[h.s]]
        ELSE [error |-> TRUE, tipo |-> ""]

\* tipos_vias[k] = tipos_vias.get(k, 0) + 1 on a dict, which keeps its keys
\* in insertion order: a sequence of <<label, count>>.
Incrementar(d, k) ==
    IF \E i \in DOMAIN d : d[i][1] = k
    THEN [i \in DOMAIN d |-> IF d[i][1] = k THEN <<k, d[i][2] + 1>> ELSE d[i]]
    ELSE Append(d, <<k, 1>>)

\* Line 140: name and str(name).lower() not in ['nan', 'none', ''].
TieneNombre(v) ==
    CASE v.t = "str" -> v.s # "" /\ Lower[v.s] \notin {"nan", "none", ""}
      [] v.t = "list" -> v.l # <<>>
      [] v.t = "num" -> v.n # 0
      [] OTHER -> FALSE

\* Line 145: isinstance(length, (int, float)) and length > 0.
LongitudSumada(v) == IF v.t = "num" /\ v.n > 0 THEN v.n ELSE 0

\* Lines 128-146: the loop over the rows, stopped by the first exception.
RECURSIVE Recorrer(_, _, _)
Recorrer(g, i, acc) ==
    IF acc.error \/ i > Len(g.edges) THEN acc
    ELSE LET e == g.edges[i]
             tv == TipoDeVia(EdgeGet(g, e, "highway", Str("unknown")))
         IN  IF tv.error THEN [acc EXCEPT !.error = TRUE]
             ELSE Recorrer(g, i + 1,
                    [error |-> FALSE,
                     tipos_vias |-> Incrementar(acc.tipos_vias, tv.tipo),
                     calles_nombradas |-> acc.calles_nombradas
                        + (IF TieneNombre(EdgeGet(g, e, "name", Nulo)) THEN 1 ELSE 0),
                     longitud_total |-> acc.longitud_total
                        + LongitudSumada(EdgeGet(g, e, "length", Num(0)))])

\* A sort by count that puts x before the entries of its own count.
RECURSIVE InsertarAntesDeIguales(_, _)
InsertarAntesDeIguales(s, x) ==
    IF s = <<>> THEN <<x>>
    ELSE IF Head(s)[2] > x[2] THEN <<Head(s)>> \o InsertarAntesDeIguales(Tail(s), x)
    ELSE <<x>> \o s

\* sorted(items, key=count, reverse=True): stable, so equal counts keep
\* their order.  x goes after every entry whose count is not smaller.
RECURSIVE InsertarOrdenado(_, _)
InsertarOrdenado(s, x) ==
    IF s = <<>> THEN <<x>>
    ELSE IF Head(s)[2] >= x[2] THEN <<Head(s)>> \o InsertarOrdenado(Tail(s), x)
    ELSE <<x>> \o s

RECURSIVE Ordenar(_)
Ordenar(s) ==
    IF s = <<>> THEN <<>>
    ELSE InsertarOrdenado(Ordenar(SubSeq(s, 1, Len(s) - 1)), s[Len(s)])

\* s[:n], the slice of a list.
Primeros(s, n) == SubSeq(s, 1, Min(n, Len(s)))

\* round(longitud_total / 1000, 1), in tenths of a km.  The lengths of the
\* model are whole hundreds of metres, where the rounding is exact.
LongitudKm(metros) == (metros + 50) \div 100

extraer_calles_principales ==
    /\ op' = "extraer_calles_principales"
    /\ G' = G
    /\ UNCHANGED <<reloj, hora_actual, dia_semana, inicio, num_semaforos_osm, reporte, mapa>>
    /\ IF ~G.cargado
       THEN /\ ret' = RetNone
            /\ fallo' = FALSE
            /\ estadisticas' = estadisticas
            /\ tipos_ordenados' = tipos_ordenados
       ELSE LET r == Recorrer(G, 1, [error |-> FALSE, tipos_vias |-> <<>>,
                                     calles_nombradas |-> 0, longitud_total |-> 0])
            IN  IF G.edges = <<>> \/ r.error
                THEN \* graph_to_gdfs raises on a graph without edges
                     /\ ret' = RetDict(<<>>)
                     /\ fallo' = TRUE
                     /\ estadisticas' = estadisticas
                     /\ tipos_ordenados' = tipos_ordenados
                ELSE /\ ret' = RetDict(r.tipos_vias)
                     /\ fallo' = FALSE
                     /\ tipos_ordenados' = Ordenar(r.tipos_vias)
                     /\ estadisticas' =
                          Put(Put(Put(estadisticas, "calles_nombradas", r.calles_nombradas),
                                  "longitud_total_km", LongitudKm(r.longitud_total)),
                              "tipos_vias", Primeros(tipos_ordenados', TopAlmacenado))

-----------------------------------------------------------------------------
(* The street aggregator on its own: two intersections joined by segments  *)
(* whose category, name and length take the shapes below.                  *)

SegmentosCalles ==
    {Arista(1, 2, Str("residential"), Str("Calle 5"), Num(100)),
     Arista(1, 2, Str("residential"), Falta, Falta),
     Arista(1, 2, Str("busway"), Str("nan"), Num(-100)),
     Arista(1, 2, Lista(<<"primary", "secondary">>), Falta, Num(200)),
     Arista(1, 2, Lista(<<>>), Falta, Falta),
     Arista(1, 2, Falta, Str("Calle 5"), Num(100)),
     Arista(1, 2, Falta, Falta, Falta)}

GrafosCalles == {Grafo({1, 2}, es) : es \in SeqsHasta(SegmentosCalles, MaxSegmentos)}

InitCalles == Construido /\ reloj = 0

ExtraerCalles ==
    /\ \E ok \in BOOLEAN, g \in GrafosCalles : extraer_datos_basicos(ok, g)
    /\ FueraDeEjecucion

CallesPrincipales == extraer_calles_principales /\ FueraDeEjecucion

NextCalles == ExtraerCalles \/ CallesPrincipales

SpecCalles == InitCalles /\ [][NextCalles]_vars

\* The counts of a distribution, summed.
RECURSIVE TotalDistribucion(_)
TotalDistribucion(d) == IF d = <<>> THEN 0 ELSE Head(d)[2] + TotalDistribucion(Tail(d))

\* C2: whenever extraer_calles_principales has run on a loaded graph, the
\* segment counts of the distribution it returned sum to the number of
\* segments extraer_datos_basicos recorded.
C2_DistribucionSumaSegmentos ==
    (op = "extraer_calles_principales" /\ G.cargado) =>
        TotalDistribucion(ret.dist) = estadisticas["segmentos_calles"]

\* A segment whose category, name or length is missing, or whose category
\* is an empty list.
Malformado(e) ==
    \/ e.highway.t = "falta"
    \/ e.highway = Lista(<<>>)
    \/ e.name.t = "falta"
    \/ e.length.t = "falta"

BienNombrado(e) == e.name.t = "str" /\ e.name.s \notin {"", "nan", "None"}

\* C7: when extraer_calles_principales has run on a graph that holds a
\* malformed segment, it has not failed: the distribution it returned and the
\* one it stored count every segment of the graph, and the stored named-street
\* count and length are those of the well-formed names and lengths alone.
C7_MalformadoTolerado ==
    (op = "extraer_calles_principales" /\ G.cargado
       /\ \E i \in DOMAIN G.edges : Malformado(G.edges[i])) =>
        /\ ~fallo
        /\ TotalDistribucion(ret.dist) = Len(G.edges)
        /\ "tipos_vias" \in DOMAIN estadisticas
        /\ TotalDistribucion(estadisticas["tipos_vias"]) = Len(G.edges)
        /\ estadisticas["calles_nombradas"]
             = Cardinality({i \in DOMAIN G.edges : BienNombrado(G.edges[i])})
        /\ estadisticas["longitud_total_km"] * 100
             = SumSeq([i \in DOMAIN G.edges |->
                        IF G.edges[i].length.t = "num" /\ G.edges[i].length.n > 0
                        THEN G.edges[i].length.n ELSE 0])

-----------------------------------------------------------------------------
(* The ranking of the street aggregator: graphs with more categories than  *)
(* the statistics record keeps, some of them on several segments.          *)

\* The OSM highway values of traduccion_vias, in the order of lines 101-120.
TiposDeVia ==
    <<"residential", "tertiary", "secondary", "primary", "trunk", "unclassified",
      "primary_link", "secondary_link", "tertiary_link", "trunk_link", "service",
      "living_street", "pedestrian", "footway", "cycleway", "track", "path",
      "steps", "motorway", "motorway_link">>

\* Values that further segments carry: one early in the table, one late.
TiposRepetidos == {"residential", "steps"}

SegmentoDeTipo(h) == Arista(1, 2, Str(h), Str("Calle 5"), Num(100))

\* n segments of n consecutive highway values, from the r-th on, followed by
\* the segments of extras.
GrafoRanking(r, n, extras) ==
    Grafo({1, 2},
          [i \in 1..n |-> SegmentoDeTipo(TiposDeVia[((r + i - 1) % Len(TiposDeVia)) + 1])]
            \o [i \in 1..Len(extras) |-> SegmentoDeTipo(extras[i])])

\* From one category short of what the record keeps up to MaxCategorias,
\* beginning at the head or in the middle of the table.
GrafosRanking ==
    {GrafoRanking(r, n, extras) :
        r \in {0, Len(TiposDeVia) \div 2}, n \in (TopAlmacenado - 1)..MaxCategorias,
        extras \in SeqsHasta(TiposRepetidos, MaxRepetidos)}

InitRanking == Construido /\ reloj = 0

ExtraerRanking ==
    /\ \E ok \in BOOLEAN, g \in GrafosRanking : extraer_datos_basicos(ok, g)
    /\ FueraDeEjecucion

NextRanking == ExtraerRanking \/ CallesPrincipales

SpecRanking == InitRanking /\ [][NextRanking]_vars

\* The label under which the i-th segment of the graph is counted.
EtiquetaDe(i) == TipoDeVia(EdgeGet(G, G.edges[i], "highway", Str("unknown"))).tipo

SegmentosDe(l) == {i \in DOMAIN G.edges : EtiquetaDe(i) = l}

\* The first segment that carries label l: where l entered the distribution.
PrimerSegmento(l) == CHOOSE i \in SegmentosDe(l) : \A j \in SegmentosDe(l) : i <= j

\* C11: when extraer_calles_principales has run to its end on a loaded graph,
\* the ranked view holds every category of the graph once with its segment
\* count, by count descending, categories of equal count in the order in
\* which their labels first occurred; and the tipos_vias of the statistics
\* record is the first 10 entries of that view, in that order.
C11_RankingEstable ==
    (op = "extraer_calles_principales" /\ G.cargado /\ ~fallo) =>
        LET t == tipos_ordenados
            s == estadisticas["tipos_vias"]
        IN  /\ {t[i][1] : i \in DOMAIN t} = {EtiquetaDe(i) : i \in DOMAIN G.edges}
            /\ \A i \in DOMAIN t : t[i][2] = Cardinality(SegmentosDe(t[i][1]))
            /\ \A i, j \in DOMAIN t : i < j =>
                  \/ t[i][2] > t[j][2]
                  \/ /\ t[i][2] = t[j][2]
                     /\ PrimerSegmento(t[i][1]) < PrimerSegmento(t[j][1])
            /\ Len(s) = IF Len(t) < TopAlmacenado THEN Len(t) ELSE TopAlmacenado
            /\ \A i \in DOMAIN s : s[i] = t[i]

\* A ranking of more than 10 categories that is not the insertion order: a
\* category that entered eleventh or later leads it with two segments, the
\* tenth and the eleventh entry tie, and only the tenth is stored.
C11_Testigo ==
    /\ op = "extraer_calles_principales" /\ G.cargado /\ ~fallo
    /\ Len(tipos_ordenados) > TopAlmacenado
    /\ tipos_ordenados[1][2] = 2
    /\ PrimerSegmento(tipos_ordenados[1][1]) > TopAlmacenado
    /\ tipos_ordenados[TopAlmacenado][2] = tipos_ordenados[TopAlmacenado + 1][2]
    /\ Len(estadisticas["tipos_vias"]) = TopAlmacenado
    /\ estadisticas["tipos_vias"][TopAlmacenado] = tipos_ordenados[TopAlmacenado]

-----------------------------------------------------------------------------
(* buscar_semaforos_osm: ok says whether ox.geometries_from_place returned, *)
(* k is the number of features it returned.                                 *)

\* min(c, int(c * 0.3)); int(c * 0.3) is floor(3c/10) for every c >= 0 a
\* double holds exactly.
EstimadosConOsm(c) == Min(c, (c * 3) \div 10)

EstimadosComoConOsm(c) == (c * 3) \div 10

\* int(c * 0.25)
EstimadosSinOsm(c) == c \div 4

TotalSoloOsm(k, e) == k

TotalConOsm(k, e) == k + e

buscar_semaforos_osm(ok, k) ==
    LET intersecciones_complejas == Get(estadisticas, "intersecciones_complejas", 0)
        semaforos_estimados == IF ok THEN EstimadosConOsm(intersecciones_complejas)
                               ELSE EstimadosSinOsm(intersecciones_complejas)
        total == IF ok THEN TotalConOsm(k, semaforos_estimados) ELSE semaforos_estimados
    IN  /\ op' = "buscar_semaforos_osm"
        /\ fallo' = ~ok
        /\ num_semaforos_osm' = IF ok THEN k ELSE num_semaforos_osm
        /\ G' = G
        /\ estadisticas' =
             Put(Put(Put(estadisticas, "semaforos_osm", IF ok THEN k ELSE 0),
                     "semaforos_estimados", semaforos_estimados),
                 "semaforos_total", total)
        /\ ret' = RetInt(total)
        /\ UNCHANGED <<reloj, hora_actual, dia_semana, inicio, reporte, mapa, tipos_ordenados>>

-----------------------------------------------------------------------------
(* The signal estimator on its own, on graphs of n intersections with two  *)
(* self-loops each (degree 4, so n complex intersections).                 *)

Roseta(n) == Grafo(1..n, [i \in 1..(2 * n) |-> AristaLisa((i + 1) \div 2, (i + 1) \div 2)])

Rosetas == {Roseta(n) : n \in 1..MaxComplejas}

InitSemaforos == Construido /\ reloj = 0

ExtraerRoseta ==
    /\ \E ok \in BOOLEAN, g \in Rosetas : extraer_datos_basicos(ok, g)
    /\ FueraDeEjecucion

AnalizarRoseta == analizar_intersecciones /\ FueraDeEjecucion

BuscarSemaforos ==
    /\ \E ok \in BOOLEAN, k \in 0..MaxSemaforos : buscar_semaforos_osm(ok, k)
    /\ FueraDeEjecucion

NextSemaforos == ExtraerRoseta \/ AnalizarRoseta \/ BuscarSemaforos

SpecSemaforos == InitSemaforos /\ [][NextSemaforos]_vars

\* C3: after every call of buscar_semaforos_osm, whichever branch it took,
\* the stored total is the stored confirmed count plus the stored estimate,
\* and the estimate lies between 0 and the complex-intersection count.
C3_TotalEsSuma ==
    (op = "buscar_semaforos_osm") =>
        /\ estadisticas["semaforos_total"]
             = estadisticas["semaforos_osm"] + estadisticas["semaforos_estimados"]
        /\ 0 <= estadisticas["semaforos_estimados"]
        /\ estadisticas["semaforos_estimados"]
             <= Get(estadisticas, "intersecciones_complejas", 0)

C3_Testigo ==
    /\ op = "buscar_semaforos_osm"
    /\ ~fallo
    /\ estadisticas["semaforos_osm"] >= 1
    /\ estadisticas["semaforos_estimados"] >= 2

\* C4: after buscar_semaforos_osm with c complex intersections: when the
\* fetch returned k features, confirmed = k, estimated = floor(0.3 c) and
\* total = k + floor(0.3 c); when the fetch failed, confirmed = 0 and
\* estimated = total = floor(0.25 c).  (e = floor(q c) is stated as
\* e <= q c < e + 1, in integers.)
C4_FormulasDeEstimacion ==
    (op = "buscar_semaforos_osm") =>
        LET c == Get(estadisticas, "intersecciones_complejas", 0)
            e == estadisticas["semaforos_estimados"]
        IN  IF ~fallo
            THEN /\ 10 * e <= 3 * c /\ 3 * c < 10 * e + 10
                 /\ estadisticas["semaforos_osm"] = num_semaforos_osm
                 /\ estadisticas["semaforos_total"] = num_semaforos_osm + e
            ELSE /\ 4 * e <= c /\ c < 4 * e + 4
                 /\ estadisticas["semaforos_osm"] = 0
                 /\ estadisticas["semaforos_total"] = e

C4_Testigo ==
    /\ op = "buscar_semaforos_osm"
    /\ fallo
    /\ Get(estadisticas, "intersecciones_complejas", 0) = 7
    /\ estadisticas["semaforos_total"] = 1

-----------------------------------------------------------------------------
(* The wall clock: ticks since Monday 00:00, TicksPorHora to the hour.     *)

TicksPorSemana == 7 * 24 * TicksPorHora

Instantes == 0..(TicksPorSemana - 1)

Hora(t) == (t \div TicksPorHora) % 24

Dia(t) == t \div (24 * TicksPorHora)

Minuto(t) == ((t % TicksPorHora) * 60) \div TicksPorHora

\* strftime('%H:%M'): the hour and the minute, two digits each.
HoraTexto(t) == <<Hora(t), Minuto(t)>>

Avanzar(t, d) == (t + d) % TicksPorSemana

-----------------------------------------------------------------------------
(* estimar_trafico_actual reads the clock at line 216 (hour), again at     *)
(* line 217 (weekday) and again at line 265 (recorded time); d1 and d2 are *)
(* the ticks that pass between the reads.                                  *)

FactorHora(h) ==
    IF 7 <= h /\ h <= 9 THEN 10
    ELSE IF 12 <= h /\ h <= 14 THEN 8
    ELSE IF 17 <= h /\ h <= 19 THEN 10
    ELSE IF 20 <= h /\ h <= 22 THEN 6
    ELSE 3

Periodo(h) ==
    IF 7 <= h /\ h <= 9 THEN "Hora pico matutina"
    ELSE IF 12 <= h /\ h <= 14 THEN "Hora almuerzo"
    ELSE IF 17 <= h /\ h <= 19 THEN "Hora pico vespertina"
    ELSE IF 20 <= h /\ h <= 22 THEN "Noche activa"
    ELSE "Horario nocturno/madrugada"

FactorDia(d) == IF d < 5 THEN 10 ELSE IF d = 5 THEN 7 ELSE 5

TipoDia(d) == IF d < 5 THEN "Día laboral" ELSE IF d = 5 THEN "Sábado" ELSE "Domingo"

DescripcionEstricta(nivel) ==
    IF nivel > 80 THEN "Alto - Congestión esperada"
    ELSE IF nivel > 50 THEN "Medio - Flujo moderado"
    ELSE "Bajo - Flujo libre"

\* nivel is factor_hora * factor_dia in hundredths; the float product
\* compares with 0.8 and 0.5, and rounds to two decimals, as the exact one.
Descripcion(nivel) ==
    IF nivel >= 80 THEN "Alto - Congestión esperada"
    ELSE IF nivel >= 50 THEN "Medio - Flujo moderado"
    ELSE "Bajo - Flujo libre"

estimar_trafico_actual(d1, d2) ==
    LET t1 == reloj
        t2 == Avanzar(t1, d1)
        t3 == Avanzar(t2, d2)
        h == Hora(t1)
        d == Dia(t2)
        nivel_trafico == FactorHora(h) * FactorDia(d)
    IN  /\ reloj' = t3
        /\ inicio' = t1
        /\ hora_actual' = h
        /\ dia_semana' = d
        /\ estadisticas' =
             Put(estadisticas, "trafico",
                 [hora |-> HoraTexto(t3),
                  periodo |-> Periodo(h),
                  tipo_dia |-> TipoDia(d),
                  nivel_numerico |-> nivel_trafico,
                  descripcion |-> Descripcion(nivel_trafico),
                  factor_hora |-> FactorHora(h),
                  factor_dia |-> FactorDia(d)])
        /\ op' = "estimar_trafico_actual"
        /\ ret' = RetFloat(nivel_trafico)
        /\ fallo' = FALSE
        /\ G' = G
        /\ UNCHANGED <<num_semaforos_osm, reporte, mapa, tipos_ordenados>>

-----------------------------------------------------------------------------
(* The traffic estimator on its own, called at any instant of the week.    *)

InitTrafico == Construido /\ reloj \in Instantes

Tic ==
    /\ reloj' = Avanzar(reloj, 1)
    /\ UNCHANGED <<G, estadisticas, hora_actual, dia_semana, inicio, pc, etapas, op, ret,
                   fallo, resultado, num_semaforos_osm, reporte, mapa, tipos_ordenados>>

EstimarTrafico ==
    /\ \E d1 \in 0..MaxDeriva, d2 \in 0..MaxDeriva : estimar_trafico_actual(d1, d2)
    /\ FueraDeEjecucion

NextTrafico == Tic \/ EstimarTrafico

SpecTrafico == InitTrafico /\ [][NextTrafico]_vars

\* C5: after estimar_trafico_actual has read the hour h and the weekday d,
\* the stored hour factor is the table's ([7,9] 1.0, [12,14] 0.8, [17,19]
\* 1.0, [20,22] 0.6, else 0.3), the stored day factor is the table's (d < 5
\* 1.0, 5 0.7, 6 0.5), and the tier is High when their product is >= 0.8,
\* Medium when it is >= 0.5 and < 0.8, Low when it is < 0.5.
C5_TablasYUmbrales ==
    (op = "estimar_trafico_actual") =>
        LET t == estadisticas["trafico"]
            producto == t.factor_hora * t.factor_dia
        IN  /\ hora_actual \in 0..23 /\ dia_semana \in 0..6
            /\ t.factor_hora =
                 CASE hora_actual \in {7, 8, 9} -> 10
                   [] hora_actual \in {12, 13, 14} -> 8
                   [] hora_actual \in {17, 18, 19} -> 10
                   [] hora_actual \in {20, 21, 22} -> 6
                   [] OTHER -> 3
            /\ t.factor_dia =
                 CASE dia_semana \in 0..4 -> 10
                   [] dia_semana = 5 -> 7
                   [] dia_semana = 6 -> 5
            /\ (producto >= 80) <=> (t.descripcion = "Alto - Congestión esperada")
            /\ (producto >= 50 /\ producto < 80) <=> (t.descripcion = "Medio - Flujo moderado")
            /\ (producto < 50) <=> (t.descripcion = "Bajo - Flujo libre")

C5_Testigo ==
    /\ op = "estimar_trafico_actual"
    /\ hora_actual = 21
    /\ dia_semana = 6
    /\ estadisticas["trafico"].nivel_numerico = 30
    /\ estadisticas["trafico"].descripcion = "Bajo - Flujo libre"

\* The estimate without the time of day it was recorded at.
SinHoraRegistrada(t) ==
    [periodo |-> t.periodo, tipo_dia |-> t.tipo_dia, nivel_numerico |-> t.nivel_numerico,
     descripcion |-> t.descripcion, factor_hora |-> t.factor_hora, factor_dia |-> t.factor_dia]

\* C6: two executions of estimar_trafico_actual that begin at the same hour
\* of the day and on the same weekday store the same estimate (its buckets,
\* factors, score and tier), whatever the clock does between the reads.  The
\* earlier execution's estimate is the one still stored when the later begins.
C6_MismaEntradaMismaEstimacion ==
    [][(/\ op = "estimar_trafico_actual"
        /\ op' = "estimar_trafico_actual"
        /\ Hora(inicio') = Hora(inicio)
        /\ Dia(inicio') = Dia(inicio))
       => SinHoraRegistrada(estadisticas'["trafico"])
            = SinHoraRegistrada(estadisticas["trafico"])]_vars

-----------------------------------------------------------------------------
(* generar_reporte_completo: ok says whether open() and write() succeeded. *)
(* The text of the report is not modelled, only that a file was written.   *)

generar_reporte_completo(ok) ==
    /\ op' = "generar_reporte_completo"
    /\ fallo' = ~ok
    /\ ret' = RetNone
    /\ reporte' = IF ok THEN [escrito |-> TRUE] ELSE reporte
    /\ UNCHANGED <<G, estadisticas, reloj, hora_actual, dia_semana, inicio,
                   num_semaforos_osm, mapa, tipos_ordenados>>

-----------------------------------------------------------------------------
(* crear_mapa_resumen: ok says whether folium built and saved the map.     *)
(* ox.graph_to_gdfs, asked for the edges too, raises on a graph without    *)
(* edges.                                                                  *)

crear_mapa_resumen(ok) ==
    /\ op' = "crear_mapa_resumen"
    /\ ret' = RetNone
    /\ IF ~G.cargado
       THEN /\ fallo' = FALSE
            /\ mapa' = mapa
       ELSE LET guardado == ok /\ G.edges # <<>>
            IN  /\ fallo' = ~guardado
                /\ mapa' = IF guardado THEN [escrito |-> TRUE] ELSE mapa
    /\ UNCHANGED <<G, estadisticas, reloj, hora_actual, dia_semana, inicio,
                   num_semaforos_osm, reporte, tipos_ordenados>>

-----------------------------------------------------------------------------
(* ejecutar_analisis_completo, one step per method it calls, on a newly    *)
(* built object as main() runs it.                                         *)

OrdenDeEtapas ==
    <<"extraer_datos_basicos", "analizar_intersecciones", "extraer_calles_principales",
      "buscar_semaforos_osm", "estimar_trafico_actual", "generar_reporte_completo",
      "crear_mapa_resumen">>

SiguienteAbortando(etapa, devuelveFalse, falla) ==
    IF devuelveFalse \/ falla THEN "fin"
    ELSE CASE etapa = "inicio" -> "analizar"
           [] etapa = "analizar" -> "calles"
           [] etapa = "calles" -> "semaforos"
           [] etapa = "semaforos" -> "trafico"
           [] etapa = "trafico" -> "reporte"
           [] etapa = "reporte" -> "mapa"
           [] etapa = "mapa" -> "fin"

SiguienteSinComprobar(etapa, devuelveFalse, falla) ==
    CASE etapa = "inicio" -> "analizar"
      [] etapa = "analizar" -> "calles"
      [] etapa = "calles" -> "semaforos"
      [] etapa = "semaforos" -> "trafico"
      [] etapa = "trafico" -> "reporte"
      [] etapa = "reporte" -> "mapa"
      [] etapa = "mapa" -> "fin"

\* Where the run goes after the call made at `etapa`: only the first call's
\* return value is looked at (line 446); no other call's value or failure is.
Siguiente(etapa, devuelveFalse, falla) ==
    CASE etapa = "inicio" -> IF devuelveFalse THEN "fin" ELSE "analizar"
      [] etapa = "analizar" -> "calles"
      [] etapa = "calles" -> "semaforos"
      [] etapa = "semaforos" -> "trafico"
      [] etapa = "trafico" -> "reporte"
      [] etapa = "reporte" -> "mapa"
      [] etapa = "mapa" -> "fin"

\* The bookkeeping of one call: the method is recorded, the run moves on,
\* and on reaching the end the run's own return value is set (lines 447, 470).
Llamar(etapa, metodo) ==
    /\ etapas' = Append(etapas, [metodo |-> metodo, fallo |-> fallo'])
    /\ pc' = Siguiente(etapa, ret'.tipo = "bool" /\ ret'.val = 0, fallo')
    /\ resultado' = IF pc' # "fin" THEN resultado
                    ELSE RetBool(etapa = "mapa")

GrafosEjemplo ==
    {Grafo({1, 2}, <<Arista(1, 2, Str("residential"), Str("Calle 5"), Num(100)),
                     Arista(2, 1, Lista(<<"primary", "secondary">>), Falta, Num(200))>>),
     Grafo({1, 2}, <<Arista(1, 2, Str("residential"), Str("Calle 5"), Num(100)),
                     Arista(2, 1, Falta, Falta, Falta)>>),
     Grafo({1}, <<>>),
     Roseta(1)}

PasoExtraer ==
    /\ pc = "inicio"
    /\ \E ok \in BOOLEAN, g \in GrafosEjemplo : extraer_datos_basicos(ok, g)
    /\ Llamar("inicio", "extraer_datos_basicos")

PasoAnalizar ==
    /\ pc = "analizar"
    /\ analizar_intersecciones
    /\ Llamar("analizar", "analizar_intersecciones")

PasoCalles ==
    /\ pc = "calles"
    /\ extraer_calles_principales
    /\ Llamar("calles", "extraer_calles_principales")

PasoSemaforos ==
    /\ pc = "semaforos"
    /\ \E ok \in BOOLEAN, k \in 0..MaxSemaforos : buscar_semaforos_osm(ok, k)
    /\ Llamar("semaforos", "buscar_semaforos_osm")

PasoTrafico ==
    /\ pc = "trafico"
    /\ \E d1 \in 0..MaxDeriva, d2 \in 0..MaxDeriva : estimar_trafico_actual(d1, d2)
    /\ Llamar("trafico", "estimar_trafico_actual")

PasoReporte ==
    /\ pc = "reporte"
    /\ \E ok \in BOOLEAN : generar_reporte_completo(ok)
    /\ Llamar("reporte", "generar_reporte_completo")

PasoMapa ==
    /\ pc = "mapa"
    /\ \E ok \in BOOLEAN : crear_mapa_resumen(ok)
    /\ Llamar("mapa", "crear_mapa_resumen")

Init == Construido /\ reloj \in Instantes

Next ==
    \/ PasoExtraer
    \/ PasoAnalizar
    \/ PasoCalles
    \/ PasoSemaforos
    \/ PasoTrafico
    \/ PasoReporte
    \/ PasoMapa

Spec == Init /\ [][Next]_vars

\* C9: a step in which the graph fetch fails returns False from
\* extraer_datos_basicos, leaves the graph, the statistics and both sinks as
\* they were, and ends the run with ejecutar_analisis_completo returning False
\* after that one call; and no step is ever taken after a failed fetch.
C9_FalloDeDescargaEsFatal ==
    [][/\ (op' = "extraer_datos_basicos" /\ fallo') =>
            /\ ret' = RetBool(FALSE)
            /\ G' = G
            /\ estadisticas' = estadisticas
            /\ reporte' = reporte
            /\ mapa' = mapa
            /\ pc' = "fin"
            /\ resultado' = RetBool(FALSE)
            /\ etapas' = <<[metodo |-> "extraer_datos_basicos", fallo |-> TRUE]>>
       /\ ~(op = "extraer_datos_basicos" /\ fallo)]_vars

C9_Testigo ==
    /\ op = "extraer_datos_basicos"
    /\ fallo
    /\ pc = "fin"
    /\ resultado = RetBool(FALSE)
    /\ ~G.cargado

\* C10: the methods called so far are always an initial part of the fixed
\* order; once the graph is loaded the run can always take its next step
\* until it ends; and when it ends every method has been called exactly
\* once, in that order, and the run returns True, whichever of the signal
\* fetch, the report write and the map write failed.
C10_EtapasEnOrden ==
    LET llamados == [i \in DOMAIN etapas |-> etapas[i].metodo]
    IN  /\ Len(llamados) <= Len(OrdenDeEtapas)
        /\ llamados = SubSeq(OrdenDeEtapas, 1, Len(llamados))
        /\ (G.cargado /\ pc # "fin") => ENABLED Next
        /\ (G.cargado /\ pc = "fin") =>
              /\ llamados = OrdenDeEtapas
              /\ resultado = RetBool(TRUE)

\* A run that ends although the signal fetch, the report and the map failed.
C10_Testigo ==
    /\ pc = "fin"
    /\ resultado = RetBool(TRUE)
    /\ Len(etapas) = 7
    /\ etapas[4].fallo
    /\ etapas[6].fallo
    /\ etapas[7].fallo
    /\ ~reporte.escrito
    /\ ~mapa.escrito

-----------------------------------------------------------------------------
(* The methods that call an external collaborator, called on their own in  *)
(* any order.                                                              *)

InitApi == Construido /\ reloj = 0

ExtraerApi ==
    /\ \E ok \in BOOLEAN, g \in GrafosEjemplo : extraer_datos_basicos(ok, g)
    /\ FueraDeEjecucion

AnalizarApi == analizar_intersecciones /\ FueraDeEjecucion

BuscarApi ==
    /\ \E ok \in BOOLEAN, k \in 0..MaxSemaforos : buscar_semaforos_osm(ok, k)
    /\ FueraDeEjecucion

ReporteApi ==
    /\ \E ok \in BOOLEAN : generar_reporte_completo(ok)
    /\ FueraDeEjecucion

MapaApi ==
    /\ \E ok \in BOOLEAN : crear_mapa_resumen(ok)
    /\ FueraDeEjecucion

NextApi == ExtraerApi \/ AnalizarApi \/ BuscarApi \/ ReporteApi \/ MapaApi

SpecApi == InitApi /\ [][NextApi]_vars

OperacionesExternas ==
    {"extraer_datos_basicos", "buscar_semaforos_osm", "generar_reporte_completo",
     "crear_mapa_resumen"}

\* C8: when one of the four methods that call an external collaborator is
\* called twice in a row and the external call fails in one call and
\* succeeds in the other, the two calls return different values.
C8_ResultadoDistingueFallo ==
    [][(op' = op /\ op' \in OperacionesExternas /\ fallo' # fallo) => ret' # ret]_vars

====
